---- MODULE Spec2Model ----
(***************************************************************************)
(* Model of main.py of Meme-Stock-Tracker: one invocation of run_alert     *)
(* fetches mention counts, appends them to history.csv, reloads the file,  *)
(* classifies the tickers at or above MENTION_THRESHOLD into buy / sell    *)
(* lines and mails the report.  The file outlives the process, so a        *)
(* behaviour is a sequence of invocations over one history file.           *)
(*                                                                         *)
(* Time is counted in half days: an even instant 2*d is exactly 00:00 of   *)
(* calendar day d, an odd instant 2*d+1 is some later moment of day d.     *)
(* Text (a Python str, a CSV cell) is a sequence of one-character strings. *)
(* Ratios are compared exactly, as cross-multiplied integers; Python       *)
(* compares them in binary floating point, which decides every comparison  *)
(* of the counts used here the same way.                                   *)
(***************************************************************************)
EXTENDS Integers, Sequences, FiniteSets, TLC

VARIABLES
    now,            \* the UTC clock, in half days
    store,          \* history.csv: [exists, lines], a line is three cells
    pc,             \* position of the current invocation of run_alert
    data,           \* run_alert's local: the list fetch_mentions returned
    fetch_failed,   \* fetch_mentions took its except branch
    history,        \* run_alert's local: what load_history returned
    buy_lines,      \* build_alert_email's local, one entry per line
    sell_lines,     \* build_alert_email's local, one entry per line
    summary_lines,  \* build_alert_email's local, one entry per line
    sent,           \* outcome of send_email: "none", "sent" or "failed"
    calls,          \* the functions run_alert has called since fetching
    store0,         \* the history file as this invocation found it
    saved_at        \* the instant at which save_today_mentions read the clock

vars == << now, store, pc, data, fetch_failed, history, buy_lines, sell_lines,
           summary_lines, sent, calls, store0, saved_at >>

----------------------------------------------------------------------------
(* Bounds of the model. *)

\* the clock stops at this instant
MaxTime == 3
\* the history file holds at most this many rows
MaxRows == 3
\* a fetch returns at most this many records
MaxData == 2

----------------------------------------------------------------------------
(* Program constants (main.py lines 15-18, 88, 104).  BUY_LOWER = 1.3,      *)
(* SELL_THRESHOLD = 1.6 and DROP_THRESHOLD = 0.8 are kept in tenths.        *)

MENTION_THRESHOLD == 300
BUY_LOWER_X10 == 13
SELL_THRESHOLD_X10 == 16
DROP_THRESHOLD_X10 == 8
SPIKE_FLOOR == 800
TOP_N == 3
WEEK_DAYS == 7

----------------------------------------------------------------------------
(* Python values.  A JSON value of a fetched record is tagged: an int, a   *)
(* str or None.                                                            *)

JInt(n) == [tag |-> "int", n |-> n, s |-> << >>]
JStr(s) == [tag |-> "str", n |-> 0, s |-> s]
JNone == [tag |-> "none", n |-> 0, s |-> << >>]
\* the mark of a key the record does not have
NoKey == [tag |-> "nokey", n |-> 0, s |-> << >>]

\* dict.get(key, default) on a fetched record
Get(t, key, default) == IF t[key] = NoKey THEN default ELSE t[key]

DigitChars == << "0", "1", "2", "3", "4", "5", "6", "7", "8", "9" >>

IsDigit(c) == \E i \in 1..10 : DigitChars[i] = c

DigitValue(c) == (CHOOSE i \in 1..10 : DigitChars[i] = c) - 1

\* str(n) of a non-negative int: its decimal digits
RECURSIVE IntToStr(_)
IntToStr(n) ==
    IF n < 10 THEN << DigitChars[n + 1] >>
    ELSE Append(IntToStr(n \div 10), DigitChars[(n % 10) + 1])

\* what csv.DictWriter writes for a value: None as the empty cell, else str(v)
CsvCell(v) ==
    CASE v.tag = "none" -> << >>
      [] v.tag = "int" -> IntToStr(v.n)
      [] OTHER -> v.s

\* int(text) succeeds on a non-empty run of digits and raises ValueError otherwise
IntParses(s) == Len(s) > 0 /\ \A i \in 1..Len(s) : IsDigit(s[i])

RECURSIVE StrToInt(_)
StrToInt(s) ==
    IF Len(s) = 0 THEN 0
    ELSE 10 * StrToInt(SubSeq(s, 1, Len(s) - 1)) + DigitValue(s[Len(s)])

\* datetime.utcnow().strftime("%Y-%m-%d"): the calendar day, the time of day dropped
\* (the text of day d is written as the digits of d)
FormatDate(t) == IntToStr(t \div 2)

\* datetime.strptime(text, "%Y-%m-%d"): 00:00 of that day, ValueError on other text
DateParses(s) == IntParses(s)

ParseDate(s) == 2 * StrToInt(s)

----------------------------------------------------------------------------
(* The inputs: what the API may answer.                                   *)

GME == << "G", "M", "E" >>
AMC == << "A", "M", "C" >>

\* the records a response may hold: well-formed ones, one without its mentions,
\* one whose mentions is null, one without its ticker
Records ==
    { [ticker |-> JStr(GME), mentions |-> JInt(200)],
      [ticker |-> JStr(GME), mentions |-> JInt(400)],
      [ticker |-> JStr(AMC), mentions |-> JInt(400)],
      [ticker |-> JStr(GME), mentions |-> JNone],
      [ticker |-> JStr(GME), mentions |-> NoKey],
      [ticker |-> NoKey, mentions |-> JInt(400)] }

SeqsUpTo(S, n) == UNION { [1..k -> S] : k \in 0..n }

Feeds == SeqsUpTo(Records, MaxData)

----------------------------------------------------------------------------
(* history.csv *)

HEADER == << << "d", "a", "t", "e" >>,
             << "t", "i", "c", "k", "e", "r" >>,
             << "m", "e", "n", "t", "i", "o", "n", "s" >> >>

Absent == [exists |-> FALSE, lines |-> << >>]

\* the data lines csv.DictReader yields: all but the first line, which names the fields
Rows(st) == IF Len(st.lines) = 0 THEN << >> ELSE Tail(st.lines)

\* the three cells writer.writerow writes for one fetched record (lines 54-58)
RowOf(today, t) ==
    << today, CsvCell(Get(t, "ticker", JNone)), CsvCell(Get(t, "mentions", JInt(0))) >>

\* a variant that writes the header on every call
Saved_header_always(st, d, t) ==
    [exists |-> TRUE,
     lines |-> st.lines \o << HEADER >>
               \o [i \in 1..Len(d) |-> RowOf(FormatDate(t), d[i])]]

\* the file after save_today_mentions(d) at instant t (lines 46-58)
Saved(st, d, t) ==
    [exists |-> TRUE,
     lines |-> (IF st.exists THEN st.lines ELSE << HEADER >>)
               \o [i \in 1..Len(d) |-> RowOf(FormatDate(t), d[i])]]

\* load_history raises ValueError on a row whose date or mentions does not parse
LoadRaises(st) ==
    \E i \in 1..Len(Rows(st)) :
        ~DateParses(Rows(st)[i][1]) \/ ~IntParses(Rows(st)[i][3])

\* the entries load_history appends, in file order, each with its ticker key
LoadedEntries(st) ==
    [i \in 1..Len(Rows(st)) |->
        [ticker |-> Rows(st)[i][2],
         date |-> ParseDate(Rows(st)[i][1]),
         mentions |-> StrToInt(Rows(st)[i][3])]]

\* the defaultdict load_history returns: ticker text -> its entries in file order
Loaded(st) ==
    LET es == LoadedEntries(st)
        keys == { es[i].ticker : i \in 1..Len(es) }
        of(k) == SelectSeq(es, LAMBDA e : e.ticker = k)
    IN  [k \in keys |->
            [j \in 1..Len(of(k)) |->
                [date |-> of(k)[j].date, mentions |-> of(k)[j].mentions]]]

\* history.get(ticker, []): the ticker is a Python value, the keys are texts
Series(h, ticker) ==
    IF ticker.tag = "str" /\ ticker.s \in DOMAIN h THEN h[ticker.s] ELSE << >>

RECURSIVE SumMentions(_)
SumMentions(es) ==
    IF Len(es) = 0 THEN 0 ELSE es[1].mentions + SumMentions(Tail(es))

\* compute_7day_average at instant t: the entries dated on or after t minus 7 days,
\* as [sum, len]; the average is sum / len, or 0 when len = 0
compute_7day_average(h, ticker, t) ==
    LET past_week == t - 2 * WEEK_DAYS
        week == SelectSeq(Series(h, ticker), LAMBDA e : e.date >= past_week)
    IN  [sum |-> SumMentions(week), len |-> Len(week)]

\* a variant that sorts ascending: the earliest-appended entry of the earliest date
get_yesterday_mentions_ascending(h, ticker) ==
    LET es == Series(h, ticker)
    IN  IF Len(es) = 0 THEN 0
        ELSE LET first == CHOOSE i \in 1..Len(es) :
                              /\ \A j \in 1..Len(es) : es[j].date >= es[i].date
                              /\ \A j \in 1..(i - 1) : es[j].date > es[i].date
             IN  es[first].mentions

\* get_yesterday_mentions: the first entry of the stable descending sort by date,
\* that is the earliest-appended entry among those with the latest date
get_yesterday_mentions(h, ticker) ==
    LET es == Series(h, ticker)
    IN  IF Len(es) = 0 THEN 0
        ELSE LET first == CHOOSE i \in 1..Len(es) :
                              /\ \A j \in 1..Len(es) : es[j].date <= es[i].date
                              /\ \A j \in 1..(i - 1) : es[j].date < es[i].date
             IN  es[first].mentions

----------------------------------------------------------------------------
(* run_alert line 153 and build_alert_email *)

\* t.get("mentions", 0) >= MENTION_THRESHOLD raises TypeError unless the value is an int
FilterRaises(d) ==
    \E i \in 1..Len(d) : Get(d[i], "mentions", JInt(0)).tag # "int"

\* a variant without the filter
Spikes_unfiltered(d) == d

\* spikes = [t for t in data if t.get("mentions", 0) >= MENTION_THRESHOLD]
Spikes(d) ==
    SelectSeq(d, LAMBDA t : Get(t, "mentions", JInt(0)).n >= MENTION_THRESHOLD)

\* position i is among the first TOP_N of sorted(spikes, key=mentions, reverse=True):
\* the sort is stable, so a spike is preceded by the larger ones and by the equal
\* ones that come before it in the input
InTopSorted(sp, i) ==
    LET m(k) == Get(sp[k], "mentions", JInt(0)).n
        before == { j \in 1..Len(sp) : m(j) > m(i) \/ (m(j) = m(i) /\ j < i) }
    IN  Cardinality(before) < TOP_N

\* top_spikes = {s.get("ticker") for s in sorted_spikes[:3]}
TopSpikes(sp) ==
    { Get(sp[i], "ticker", JNone) : i \in { k \in 1..Len(sp) : InTopSorted(sp, k) } }

QUESTION_MARKS == << "?", "?", "?" >>

\* the locals of one pass of the loop of build_alert_email (lines 91-97); the
\* average is kept as sum and len, the ratio as mentions * len over sum
LoopLocals(sp, h, t, top_spikes, i) ==
    LET ticker == Get(sp[i], "ticker", JStr(QUESTION_MARKS))
        avg == compute_7day_average(h, ticker, t)
    IN  [ticker |-> ticker,
         mentions |-> Get(sp[i], "mentions", JInt(0)).n,
         sum |-> avg.sum,
         len |-> avg.len,
         yesterday_mentions |-> get_yesterday_mentions(h, ticker),
         in_top |-> ticker \in top_spikes]

\* ratio >= x / 10, where ratio = mentions / avg_7d if avg_7d else 0
RatioAtLeast(e, x10) ==
    IF e.sum = 0 THEN 0 >= x10 ELSE 10 * e.mentions * e.len >= x10 * e.sum

\* day_change > 0, where day_change = (mentions - y) / y * 100 if y else 0
DayChangePositive(e) ==
    e.yesterday_mentions # 0 /\ e.mentions > e.yesterday_mentions

\* a variant that asks for the floor and the top three together
SellBySpike_and(e) ==
    /\ RatioAtLeast(e, SELL_THRESHOLD_X10)
    /\ e.mentions >= MENTION_THRESHOLD
    /\ (e.mentions >= SPIKE_FLOOR /\ e.in_top)

\* the first operand of the SELL LOGIC condition (line 104)
SellBySpike(e) ==
    /\ RatioAtLeast(e, SELL_THRESHOLD_X10)
    /\ e.mentions >= MENTION_THRESHOLD
    /\ (e.mentions >= SPIKE_FLOOR \/ e.in_top)

\* the second operand (line 105): yesterday_mentions and
\* mentions < yesterday_mentions * DROP_THRESHOLD
SellByDrop(e) ==
    /\ e.yesterday_mentions # 0
    /\ 10 * e.mentions < DROP_THRESHOLD_X10 * e.yesterday_mentions

IsSell(e) == SellBySpike(e) \/ SellByDrop(e)

\* a variant that asks for a falling count
IsBuy_falling(e) ==
    /\ ~IsSell(e)
    /\ RatioAtLeast(e, BUY_LOWER_X10)
    /\ ~RatioAtLeast(e, SELL_THRESHOLD_X10)
    /\ e.mentions >= MENTION_THRESHOLD
    /\ e.yesterday_mentions # 0 /\ e.mentions < e.yesterday_mentions

\* the elif of the BUY LOGIC (lines 110-114)
IsBuy(e) ==
    /\ ~IsSell(e)
    /\ RatioAtLeast(e, BUY_LOWER_X10)
    /\ ~RatioAtLeast(e, SELL_THRESHOLD_X10)
    /\ e.mentions >= MENTION_THRESHOLD
    /\ DayChangePositive(e)

\* summary_lines: one entry per spike, in input order
SummaryOf(sp, h, t) ==
    LET top_spikes == TopSpikes(sp)
    IN  [i \in 1..Len(sp) |-> LoopLocals(sp, h, t, top_spikes, i)]

----------------------------------------------------------------------------
(* The invocations of run_alert *)

Terminal == { "done", "noop", "crashed" }

Init ==
    /\ now = 1
    /\ store = Absent
    /\ pc = "start"
    /\ data = << >>
    /\ fetch_failed = FALSE
    /\ history = << >>
    /\ buy_lines = << >>
    /\ sell_lines = << >>
    /\ summary_lines = << >>
    /\ sent = "none"
    /\ calls = << >>
    /\ store0 = Absent
    /\ saved_at = 0

\* a new process starts run_alert and calls fetch_mentions (lines 145, 23-29):
\* the results of the response, or [] when the request or its parsing raised
fetch_mentions ==
    /\ pc \in Terminal \cup { "start" }
    /\ \E d \in Feeds :
        /\ Len(Rows(store)) + Len(d) <= MaxRows
        /\ \E failed \in (IF d = << >> THEN BOOLEAN ELSE { FALSE }) :
            /\ data' = d
            /\ fetch_failed' = failed
    /\ pc' = "fetched"
    /\ history' = << >>
    /\ buy_lines' = << >>
    /\ sell_lines' = << >>
    /\ summary_lines' = << >>
    /\ sent' = "none"
    /\ calls' = << >>
    /\ store0' = store
    /\ saved_at' = 0
    /\ UNCHANGED << now, store >>

\* if not data: print, return (lines 146-148)
abort_no_data ==
    /\ pc = "fetched"
    /\ data = << >>
    /\ pc' = "noop"
    /\ UNCHANGED << now, store, data, fetch_failed, history, buy_lines, sell_lines,
                    summary_lines, sent, calls, store0, saved_at >>

\* a variant of run_alert without the early return
save_today_mentions_no_return ==
    /\ pc = "fetched"
    /\ store' = Saved(store, data, now)
    /\ saved_at' = now
    /\ calls' = Append(calls, "save_today_mentions")
    /\ pc' = "saved"
    /\ UNCHANGED << now, data, fetch_failed, history, buy_lines, sell_lines,
                    summary_lines, sent, store0 >>

\* save_today_mentions(data) (lines 150, 45-58)
save_today_mentions ==
    /\ pc = "fetched"
    /\ data # << >>
    /\ store' = Saved(store, data, now)
    /\ saved_at' = now
    /\ calls' = Append(calls, "save_today_mentions")
    /\ pc' = "saved"
    /\ UNCHANGED << now, data, fetch_failed, history, buy_lines, sell_lines,
                    summary_lines, sent, store0 >>

\* history = load_history() (lines 151, 31-43); a ValueError ends the process
load_history ==
    /\ pc = "saved"
    /\ calls' = Append(calls, "load_history")
    /\ IF LoadRaises(store)
         THEN pc' = "crashed" /\ history' = history
         ELSE pc' = "loaded" /\ history' = Loaded(store)
    /\ UNCHANGED << now, store, data, fetch_failed, buy_lines, sell_lines,
                    summary_lines, sent, store0, saved_at >>

\* the filter of line 153 and build_alert_email(spikes, history) (lines 155, 78-127)
build_alert_email ==
    /\ pc = "loaded"
    /\ IF FilterRaises(data)
         THEN /\ pc' = "crashed"
              /\ UNCHANGED << buy_lines, sell_lines, summary_lines, calls >>
         ELSE LET summary == SummaryOf(Spikes(data), history, now)
              IN  /\ summary_lines' = summary
                  /\ sell_lines' = SelectSeq(summary, IsSell)
                  /\ buy_lines' = SelectSeq(summary, IsBuy)
                  /\ calls' = Append(calls, "build_alert_email")
                  /\ pc' = "built"
    /\ UNCHANGED << now, store, data, fetch_failed, history, sent, store0, saved_at >>

\* send_email(subject, html) (lines 156, 129-142): the transport's failure is
\* caught and printed
send_email ==
    /\ pc = "built"
    /\ \E outcome \in { "sent", "failed" } : sent' = outcome
    /\ calls' = Append(calls, "send_email")
    /\ pc' = "done"
    /\ UNCHANGED << now, store, data, fetch_failed, history, buy_lines, sell_lines,
                    summary_lines, store0, saved_at >>

\* time passes
Tick ==
    /\ now < MaxTime
    /\ now' = now + 1
    /\ UNCHANGED << store, pc, data, fetch_failed, history, buy_lines, sell_lines,
                    summary_lines, sent, calls, store0, saved_at >>

Next ==
    \/ fetch_mentions
    \/ abort_no_data
    \/ save_today_mentions
    \/ load_history
    \/ build_alert_email
    \/ send_email
    \/ Tick

Spec == Init /\ [][Next]_vars

----------------------------------------------------------------------------
(* build_alert_email as a function of its arguments: the spikes and the     *)
(* history are drawn from bounded sets and the function is applied once,    *)
(* with no history file behind the history it is handed.                    *)

\* the function is handed at most this many spikes
MaxSpikes == 4

\* the spikes handed in: every count is at or above MENTION_THRESHOLD
SpikeRecords ==
    { [ticker |-> JStr(GME), mentions |-> JInt(400)],
      [ticker |-> JStr(GME), mentions |-> JInt(850)],
      [ticker |-> JStr(AMC), mentions |-> JInt(300)],
      [ticker |-> JStr(AMC), mentions |-> JInt(400)],
      [ticker |-> JStr(AMC), mentions |-> JInt(850)] }

\* the series a ticker may have; the function is applied on day 7
SeriesChoices ==
    { << >>,
      << [date |-> 12, mentions |-> 300] >>,
      << [date |-> 12, mentions |-> 200], [date |-> 14, mentions |-> 400] >>,
      << [date |-> 0, mentions |-> 850], [date |-> 12, mentions |-> 200] >> }

InitClassifier ==
    /\ now \in { 14, 15 }
    /\ store = Absent
    /\ pc = "loaded"
    /\ data \in SeqsUpTo(SpikeRecords, MaxSpikes)
    /\ fetch_failed = FALSE
    /\ history \in [{ GME, AMC } -> SeriesChoices]
    /\ buy_lines = << >>
    /\ sell_lines = << >>
    /\ summary_lines = << >>
    /\ sent = "none"
    /\ calls = << >>
    /\ store0 = Absent
    /\ saved_at = 0

NextClassifier == build_alert_email

SpecClassifier == InitClassifier /\ [][NextClassifier]_vars

----------------------------------------------------------------------------
(* Properties *)

AllCalls == << "save_today_mentions", "load_history", "build_alert_email", "send_email" >>

IsPrefix(a, b) == Len(a) <= Len(b) /\ SubSeq(b, 1, Len(a)) = a

Entries(lines) == { lines[i] : i \in 1..Len(lines) }

\* C1: in a run whose fetch yielded the empty list (an empty response or a
\* failed fetch), nothing is called after the fetch, the history file is as the
\* run found it, nothing is built or sent, and the only place the run reaches
\* after the fetch is the no-op end.
C1_EmptyFetchIsNoOp ==
    (pc # "start" /\ data = << >>) =>
        /\ pc \in { "fetched", "noop" }
        /\ calls = << >>
        /\ store = store0
        /\ sent = "none"
        /\ summary_lines = << >> /\ buy_lines = << >> /\ sell_lines = << >>

\* a failed fetch over an existing history file ended in the no-op state
C1_Witness ==
    pc = "noop" /\ fetch_failed /\ Len(Rows(store)) > 0 /\ calls = << >>

\* C2 (as claimed): every run whose fetch yielded data ends normally, having
\* called persist, classify and notify once each in that order, with the rows it
\* persisted in the file.
C2_DataRunCompletes ==
    (pc \in Terminal /\ data # << >>) =>
        /\ pc = "done"
        /\ calls = AllCalls
        /\ store = Saved(store0, data, saved_at)

\* C4: no buy line and no sell line of a run is for a count below
\* MENTION_THRESHOLD, whatever the ticker's history is.
C4_NoSignalBelowThreshold ==
    \A e \in Entries(buy_lines) \cup Entries(sell_lines) : e.mentions >= 300

\* a run was built whose data holds a count below the threshold that has fallen
\* below 80% of the ticker's latest history entry, and it got no line
C4_Witness ==
    /\ pc = "built"
    /\ \E i \in 1..Len(data) :
        LET m == Get(data[i], "mentions", JInt(0)).n
            y == get_yesterday_mentions(history, data[i].ticker)
        IN  m < 300 /\ y # 0 /\ 10 * m < 8 * y
    /\ sell_lines = << >>

\* the instant 00:00 of the day on which this run saved its rows
RunDate == 2 * (saved_at \div 2)

\* the ratio of a summary entry is at least x / 10 (0 when there is no average)
EntryRatioAtLeast(e, x10) == e.sum > 0 /\ 10 * e.mentions * e.len >= x10 * e.sum

SurelyTopThree(i) ==
    Cardinality({ j \in 1..Len(summary_lines) :
                    j # i /\ summary_lines[j].mentions >= summary_lines[i].mentions }) <= 2

\* the ticker of entry e is the ticker of a spike that is surely among the top three
TickerInTopThree(e) ==
    \E k \in 1..Len(summary_lines) :
        summary_lines[k].ticker = e.ticker /\ SurelyTopThree(k)

\* C5: every spike with a ratio of at least the sell multiplier that has at least
\* 800 mentions or whose ticker is among the three highest counts of the run gets
\* a sell line and no buy line.
C5_SellRule ==
    \A e \in Entries(summary_lines) :
        (/\ e.mentions >= 300
         /\ EntryRatioAtLeast(e, 16)
         /\ (e.mentions >= 800 \/ TickerInTopThree(e)))
            => e \in Entries(sell_lines) /\ e \notin Entries(buy_lines)

\* of four spikes, one with 850 mentions against an average of 300 and one with
\* fewer than 800 mentions that is surely in the top three got sell lines, while
\* another spike is not surely in the top three
C5_Witness ==
    /\ pc = "built"
    /\ Len(summary_lines) = 4
    /\ \E e \in Entries(sell_lines) : e.mentions = 850 /\ e.sum = 300 /\ e.len = 1
    /\ \E k \in 1..4 :
        /\ summary_lines[k].mentions < 800
        /\ SurelyTopThree(k)
        /\ summary_lines[k] \in Entries(sell_lines)
    /\ \E k \in 1..4 : ~SurelyTopThree(k)

\* the text of a record's ticker and its count, a missing or null one read as
\* the empty text and as 0
TickerText(t) == IF t.ticker.tag = "str" THEN t.ticker.s ELSE << >>
CountOf(t) == IF t.mentions.tag = "int" THEN t.mentions.n ELSE 0

\* what a round trip of the records d appended on the day of instant t must load
\* under ticker text k
Expected(d, t, k) ==
    LET mine == SelectSeq(d, LAMBDA r : TickerText(r) = k)
    IN  [j \in 1..Len(mine) |-> [date |-> 2 * (t \div 2), mentions |-> CountOf(mine[j])]]

\* C6 (as claimed): after the first append to an absent file, load_history
\* returns exactly the appended records, each under its ticker with its count
\* and the day of the append.
C6_RoundTrip ==
    (store0 = Absent /\ Len(calls) >= 2) =>
        /\ pc # "crashed"
        /\ DOMAIN history = { TickerText(data[i]) : i \in 1..Len(data) }
        /\ \A k \in DOMAIN history : history[k] = Expected(data, saved_at, k)

WellFormed(t) == t.ticker.tag = "str" /\ t.mentions.tag = "int"

\* the round trip of C6 for records that hold a ticker text and an integer count
RoundTripOfWellFormed ==
    (/\ store0 = Absent /\ Len(calls) >= 2
     /\ \A i \in 1..Len(data) : WellFormed(data[i])) =>
        /\ pc # "crashed"
        /\ DOMAIN history = { TickerText(data[i]) : i \in 1..Len(data) }
        /\ \A k \in DOMAIN history : history[k] = Expected(data, saved_at, k)

\* the lines a step added to the file
Added == SubSeq(store'.lines, Len(store.lines) + 1, Len(store'.lines))

\* C7: no step changes, reorders or removes a line of the history file; a step
\* that writes adds one row per fetched record, in order, dated with the day of
\* the write, and writes the header exactly when it creates the file.
C7_AppendOnly ==
    [][ /\ IsPrefix(store.lines, store'.lines)
        /\ store.exists => store'.exists
        /\ store' # store =>
            LET rows == IF store.exists THEN Added ELSE Tail(Added)
            IN  /\ data # << >>
                /\ ~store.exists => Added[1] = HEADER
                /\ Len(rows) = Len(data)
                /\ \A i \in 1..Len(rows) :
                    /\ rows[i] # HEADER
                    /\ DateParses(rows[i][1])
                    /\ ParseDate(rows[i][1]) = 2 * (now \div 2)
                    /\ rows[i][2] = TickerText(data[i]) ]_vars

\* a second run of the same day has left a second row for a (date, ticker) that
\* the file already held
C7_Witness ==
    /\ pc = "saved"
    /\ \E i \in 1..Len(Rows(store0)) :
        \E j \in (Len(Rows(store0)) + 1)..Len(Rows(store)) :
            /\ Rows(store)[i][1] = Rows(store)[j][1]
            /\ Rows(store)[i][2] = Rows(store)[j][2]
            /\ Rows(store)[i][2] = GME

\* C8 (as claimed): no run fails, and no buy or sell line is for a record
\* without a ticker or a count.
C8_MalformedIsHarmless ==
    /\ pc # "crashed"
    /\ \A e \in Entries(buy_lines) \cup Entries(sell_lines) :
        e.ticker.tag = "str" /\ e.ticker.s # QUESTION_MARKS /\ e.mentions > 0

\* C9 (as claimed): the yesterday count of every classified ticker is the count
\* of its latest history entry dated before the day of the run, and 0 when it
\* has none.
C9_YesterdayIsPreviousDay ==
    pc = "built" =>
        \A e \in Entries(summary_lines) :
            LET earlier == { x \in Entries(Series(history, e.ticker)) : x.date < RunDate }
                latest == { x \in earlier : \A y \in earlier : y.date <= x.date }
            IN  IF earlier = { }
                THEN e.yesterday_mentions = 0
                ELSE e.yesterday_mentions \in { x.mentions : x \in latest }

\* this run is the first of its day, no ticker occurs twice in its data, and no
\* row of the file is dated after the day of the run
FirstRunOfDay ==
    /\ \A i \in 1..Len(Rows(store0)) : ParseDate(Rows(store0)[i][1]) # RunDate
    /\ \A i, j \in 1..Len(data) : i # j => data[i].ticker # data[j].ticker
    /\ \A i \in 1..Len(Rows(store)) : ParseDate(Rows(store)[i][1]) <= RunDate

====
